---- MODULE Spec2Model ----
(***************************************************************************)
(* Melon Client launcher (src/melonclient4k.py): the MelonLauncher object, *)
(* its Tk-observable fields, its in-memory configuration, the persisted    *)
(* preferences file and the launch handler _launch with the calls it makes *)
(* into minecraft_launcher_lib.                                            *)
(*                                                                         *)
(* Strings the code inspects character by character (usernames, version    *)
(* identifiers, JVM arguments, the UUID text) are sequences of one-        *)
(* character strings; Python dicts are functions whose DOMAIN is the set   *)
(* of keys present.                                                        *)
(***************************************************************************)
EXTENDS Integers, Sequences, FiniteSets, TLC

VARIABLES
    username_var,    \* self.username_var  (tk.StringVar)
    login_type_var,  \* self.login_type_var (tk.StringVar)
    ram_var,         \* self.ram_var (tk.IntVar)
    version_var,     \* self.version_var (tk.StringVar, read-only combobox)
    ram_max,         \* self.ram_max
    config,          \* self.config (dict)
    ms_profile,      \* self.ms_profile: <<>> while the attribute is unset
    ms_token,        \* self.ms_token:   <<>> while the attribute is unset
    file,            \* melonclient_config.json on disk
    closed,          \* the root window was destroyed
    installed_fs,    \* world: what get_installed_versions enumerates
    latest_release,  \* world: get_latest_version()["release"]
    md5,             \* world: which function hashlib.md5 is (see Md5Digest)
    attempt,         \* trace of the handler invocation that just ran
    startup_config,  \* history: self.config right after _load_config
    last_passed,     \* history: request of the latest attempt past validation
    last_offline     \* history: same, latest offline attempt past validation

vars == <<username_var, login_type_var, ram_var, version_var, ram_max, config,
          ms_profile, ms_token, file, closed, installed_fs, latest_release,
          md5, attempt, startup_config, last_passed, last_offline>>

----------------------------------------------------------------------------
(* Bounds of the model.                                                    *)

\* Detected system memory in GB (the slider's upper end).
MaxRam == 1
\* Longest candidate username drawn for the validator is 16 + MaxOver.
MaxOver == 2
\* Longest installed-versions list enumerated.
MaxInstalled == 2

----------------------------------------------------------------------------
(* Characters and strings.                                                 *)

UpperLetters == <<"A","B","C","D","E","F","G","H","I","J","K","L","M",
                  "N","O","P","Q","R","S","T","U","V","W","X","Y","Z">>
LowerLetters == <<"a","b","c","d","e","f","g","h","i","j","k","l","m",
                  "n","o","p","q","r","s","t","u","v","w","x","y","z">>
Digits == <<"0","1","2","3","4","5","6","7","8","9">>
HexDigits == <<"0","1","2","3","4","5","6","7","8","9","a","b","c","d","e","f">>

Range(s) == {s[i] : i \in DOMAIN s}

SetMin(S) == CHOOSE x \in S : \A y \in S : x <= y
SetMax(S) == CHOOSE x \in S : \A y \in S : x >= y

\* str.lower() on one character
Lower(c) ==
    IF \E i \in DOMAIN UpperLetters : UpperLetters[i] = c
    THEN LowerLetters[CHOOSE i \in DOMAIN UpperLetters : UpperLetters[i] = c]
    ELSE c

\* str.lower()
StrLower(s) == [i \in 1..Len(s) |-> Lower(s[i])]

\* needle in hay  (Python's substring test)
Contains(hay, needle) ==
    \E i \in 1..(Len(hay) - Len(needle) + 1) :
        SubSeq(hay, i, i + Len(needle) - 1) = needle

Whitespace == {" ", "\t", "\n"}

\* str.strip()
Strip(s) ==
    LET keep == {i \in 1..Len(s) : s[i] \notin Whitespace}
    IN  IF keep = {} THEN <<>> ELSE SubSeq(s, SetMin(keep), SetMax(keep))

\* the character class [A-Za-z0-9_]
WordChars == Range(UpperLetters) \cup Range(LowerLetters) \cup Range(Digits) \cup {"_"}

\* re.fullmatch(r"[A-Za-z0-9_]+", name) is not None
FullMatchWord(name) == Len(name) >= 1 /\ \A i \in 1..Len(name) : name[i] \in WordChars

\* Faulty variant: re.match in place of re.fullmatch, which accepts any name that
\* starts with a character of the class.
validate_username_Match(name) ==
    /\ name # <<>>
    /\ 3 <= Len(name) /\ Len(name) <= 16
    /\ name[1] \in WordChars

\* MelonLauncher._validate_username
validate_username(name) ==
    /\ name # <<>>
    /\ 3 <= Len(name) /\ Len(name) <= 16
    /\ FullMatchWord(name)

----------------------------------------------------------------------------
(* Python dicts, the preferences file, _load_config and _save_config.      *)

EmptyDict == [k \in {} |-> 0]

\* d.get(k, default)
Get(d, k, default) == IF k \in DOMAIN d THEN d[k] ELSE default

\* d[k] = v
Put(d, k, v) == [x \in (DOMAIN d) \cup {k} |-> IF x = k THEN v ELSE d[x]]

\* The file on disk: absent, holding a JSON object, or holding text that is
\* no JSON (what an interrupted json.dump leaves behind).
MissingFile == [kind |-> "missing", data |-> EmptyDict]
BrokenFile == [kind |-> "broken", data |-> EmptyDict]
JsonFile(d) == [kind |-> "json", data |-> d]

\* MelonLauncher._load_config: FileNotFoundError and any other error both
\* leave the empty configuration.
load_config(f) == IF f.kind = "json" THEN f.data ELSE EmptyDict

\* MelonLauncher._save_config: open(..., "w") may raise (the file is left as
\* it was), json.dump may raise after the file was truncated; both errors are
\* logged and swallowed.
save_config(cfg, f, faults) ==
    IF "open" \in faults THEN f
    ELSE IF "json.dump" \in faults THEN BrokenFile
    ELSE JsonFile(cfg)

\* the "Failed to save config" lines one call of _save_config logs
SaveErrors(faults) == IF "open" \in faults \/ "json.dump" \in faults THEN 1 ELSE 0

----------------------------------------------------------------------------
(* Number formatting and the offline identifier.                           *)

RECURSIVE NatDecimal(_)
NatDecimal(n) ==
    IF n < 10 THEN <<Digits[n + 1]>>
    ELSE Append(NatDecimal(n \div 10), Digits[(n % 10) + 1])

\* f"{n}" for an int
Decimal(n) == IF n < 0 THEN <<"-">> \o NatDecimal(0 - n) ELSE NatDecimal(n)

RECURSIVE BitAnd(_, _)
BitAnd(a, b) ==
    IF a = 0 \/ b = 0 THEN 0
    ELSE (a % 2) * (b % 2) + 2 * BitAnd(a \div 2, b \div 2)

RECURSIVE BitOr(_, _)
BitOr(a, b) ==
    IF a = 0 THEN b
    ELSE IF b = 0 THEN a
    ELSE (IF a % 2 = 1 \/ b % 2 = 1 THEN 1 ELSE 0) + 2 * BitOr(a \div 2, b \div 2)

OfflinePrefix == <<"O","f","f","l","i","n","e","P","l","a","y","e","r",":">>

\* a 16-byte digest, indexed 0..15 as in the source
Digest(b6, b8, salt) ==
    [i \in 0..15 |-> IF i = 6 THEN b6 ELSE IF i = 8 THEN b8
                     ELSE (salt * 85 + i * 17) % 256]

\* hashlib.md5(text).digest(): a fixed function of the text.  The model does
\* not compute MD5; md5 = [b |-> .., s |-> ..] selects one of a family of
\* functions in which bytes 6 and 8 take every value and texts of different
\* lengths get different digests.
Md5Digest(text) ==
    Digest((md5.b + Len(text)) % 256, (255 - md5.b + Len(text)) % 256, md5.s)

\* Faulty variant: the masks of byte 6 swapped (0xF0 kept, 0x03 set).
offline_uuid_bytes_SwappedMask(username) ==
    LET digest == Md5Digest(OfflinePrefix \o username)
        b6 == BitOr(BitAnd(digest[6], 240), 3)
        b8 == BitOr(BitAnd(digest[8], 63), 128)
    IN  [i \in 0..15 |-> IF i = 6 THEN b6 ELSE IF i = 8 THEN b8 ELSE digest[i]]

\* _launch, lines 412-415: the digest with the version and variant bits set
offline_uuid_bytes(username) ==
    LET digest == Md5Digest(OfflinePrefix \o username)
        b6 == BitOr(BitAnd(digest[6], 15), 48)
        b8 == BitOr(BitAnd(digest[8], 63), 128)
    IN  [i \in 0..15 |-> IF i = 6 THEN b6 ELSE IF i = 8 THEN b8 ELSE digest[i]]

\* '%032x' % int.from_bytes(b, "big")
Hex32(b) ==
    [i \in 1..32 |->
        IF i % 2 = 1 THEN HexDigits[(b[(i - 1) \div 2] \div 16) + 1]
                     ELSE HexDigits[(b[(i - 1) \div 2] % 16) + 1]]

\* str(uuid.UUID(bytes=b)): 8-4-4-4-12 lowercase hex
UuidStr(b) ==
    LET h == Hex32(b)
    IN  SubSeq(h, 1, 8) \o <<"-">> \o SubSeq(h, 9, 12) \o <<"-">> \o
        SubSeq(h, 13, 16) \o <<"-">> \o SubSeq(h, 17, 20) \o <<"-">> \o
        SubSeq(h, 21, 32)

----------------------------------------------------------------------------
(* The launch handler, MelonLauncher._launch, as a pipeline of its         *)
(* sections.  A frame holds the handler's locals, the configuration and    *)
(* file as the handler leaves them, and what an observer sees of the run:  *)
(* the library calls in order, the modal messages in order, the number of  *)
(* writes of the preferences file.  A section acts only on a frame whose   *)
(* pc names it, so an early `return` (pc = "Failed") or an exception that  *)
(* leaves the handler (pc = "Raised") skips every later section.           *)

\* Python's None as a version identifier (no string has this shape)
NoneId == <<"None">>

\* `not version_id`
Falsy(v) == v = NoneId \/ v = <<>>

Call(op, arg) == [op |-> op, arg |-> arg]
Msg(box, title, game_type) == [box |-> box, title |-> title, game_type |-> game_type]

\* messagebox.<box>(title, ...) followed by `return`
Fail(f, error, box, title) ==
    [f EXCEPT !.pc = "Failed", !.error = error,
              !.msgs = Append(@, Msg(box, title, ""))]

\* an exception no `except` of the handler catches
Raise(f) == [f EXCEPT !.pc = "Raised", !.error = "Uncaught"]

\* lines 345-348: the locals read from the Tk variables
LaunchLocals ==
    [pc |-> "Validating", error |-> "",
     login_type |-> login_type_var,
     username |-> Strip(username_var),
     requested |-> version_var,
     game_type |-> version_var,
     ram_gb |-> ram_var,
     config |-> config, file |-> file, writes |-> 0, save_errors |-> 0,
     version_id |-> NoneId, session |-> EmptyDict, options |-> EmptyDict,
     calls |-> <<>>, msgs |-> <<>>]

\* Faulty variant: the error boxes are shown but the two `return` statements are
\* missing, so the handler goes on.
ValidateStep_NoReturn(f) ==
    IF f.pc # "Validating" THEN f
    ELSE IF f.login_type = "offline" /\ ~validate_username(f.username)
    THEN [Fail(f, "InvalidUsername", "showerror", "Invalid Username")
             EXCEPT !.pc = "Persisting"]
    ELSE IF f.login_type = "microsoft" /\ ms_profile = <<>>
    THEN [Fail(f, "NotAuthenticated", "showerror", "Not Logged In")
             EXCEPT !.pc = "Persisting"]
    ELSE [f EXCEPT !.pc = "Persisting"]

\* lines 351-364
ValidateStep(f) ==
    IF f.pc # "Validating" THEN f
    ELSE IF f.login_type = "offline" /\ ~validate_username(f.username)
    THEN Fail(f, "InvalidUsername", "showerror", "Invalid Username")
    ELSE IF f.login_type = "microsoft" /\ ms_profile = <<>>
    THEN Fail(f, "NotAuthenticated", "showerror", "Not Logged In")
    ELSE [f EXCEPT !.pc = "Persisting"]

\* Faulty variant: the configuration is updated in memory but _save_config is not
\* called.
PersistStep_NoSave(f, faults) ==
    IF f.pc # "Persisting" THEN f
    ELSE LET c1 == IF f.login_type = "offline"
                   THEN Put(f.config, "offline_username", f.username)
                   ELSE f.config
             c2 == Put(c1, "login_type", f.login_type)
             c3 == Put(c2, "ram", f.ram_gb)
         IN  [f EXCEPT !.pc = "Importing", !.config = c3]

\* lines 366-371
PersistStep(f, faults) ==
    IF f.pc # "Persisting" THEN f
    ELSE LET c1 == IF f.login_type = "offline"
                   THEN Put(f.config, "offline_username", f.username)
                   ELSE f.config
             c2 == Put(c1, "login_type", f.login_type)
             c3 == Put(c2, "ram", f.ram_gb)
         IN  [f EXCEPT !.pc = "Importing", !.config = c3,
                       !.file = save_config(c3, f.file, faults),
                       !.writes = @ + 1,
                       !.save_errors = @ + SaveErrors(faults)]

\* lines 373-379
ImportStep(f, faults) ==
    IF f.pc # "Importing" THEN f
    ELSE IF "import" \in faults
    THEN Fail(f, "LaunchUnavailable", "showwarning", "Launch Unavailable")
    ELSE [f EXCEPT !.pc = "ResolvingDirectory"]

\* line 381: outside every try block
DirectoryStep(f, faults) ==
    IF f.pc # "ResolvingDirectory" THEN f
    ELSE LET g == [f EXCEPT !.calls = Append(@, Call("get_minecraft_directory", <<>>))]
         IN  IF "get_minecraft_directory" \in faults
             THEN Raise(g)
             ELSE [g EXCEPT !.pc = "ResolvingVersion"]

\* Faulty variant: the identifier is compared without .lower().
FirstMatch_CaseSensitive(installed, loader) ==
    LET hits == {i \in 1..Len(installed) :
                    Contains(Get(installed[i], "id", <<>>), loader)}
    IN  IF hits = {} THEN NoneId ELSE installed[SetMin(hits)]["id"]

\* next((v["id"] for v in installed if loader in v.get("id", "").lower()), None)
FirstMatch(installed, loader) ==
    LET hits == {i \in 1..Len(installed) :
                    Contains(StrLower(Get(installed[i], "id", <<>>)), loader)}
    IN  IF hits = {} THEN NoneId ELSE installed[SetMin(hits)]["id"]

LoaderForge == <<"f","o","r","g","e">>
LoaderFabric == <<"f","a","b","r","i","c">>

\* Faulty variant: Vanilla reuses the first installed version that has an id and
\* looks the latest release up only when there is none.
PickVersion_PreferInstalled(f, faults) ==
    LET withId == {i \in 1..Len(installed_fs) : "id" \in DOMAIN installed_fs[i]}
    IN  IF f.game_type = "Vanilla" /\ withId # {}
        THEN [f EXCEPT !.version_id = installed_fs[SetMin(withId)]["id"]]
        ELSE IF f.game_type = "Vanilla"
        THEN LET g == [f EXCEPT !.calls = Append(@, Call("get_latest_version", <<>>))]
             IN  IF "get_latest_version" \in faults
                 THEN Fail(g, "VersionResolutionError", "showerror", "Launch Error")
                 ELSE [g EXCEPT !.version_id = latest_release]
        ELSE IF f.game_type = "Forge"
        THEN [f EXCEPT !.version_id = FirstMatch(installed_fs, LoaderForge)]
        ELSE IF f.game_type = "Fabric"
        THEN [f EXCEPT !.version_id = FirstMatch(installed_fs, LoaderFabric)]
        ELSE Fail(f, "VersionResolutionError", "showerror", "Launch Error")

\* lines 386-391: the version picked for the requested game type
PickVersion(f, faults) ==
    IF f.game_type = "Vanilla"
    THEN LET g == [f EXCEPT !.calls = Append(@, Call("get_latest_version", <<>>))]
         IN  IF "get_latest_version" \in faults
             THEN Fail(g, "VersionResolutionError", "showerror", "Launch Error")
             ELSE [g EXCEPT !.version_id = latest_release]
    ELSE IF f.game_type = "Forge"
    THEN [f EXCEPT !.version_id = FirstMatch(installed_fs, LoaderForge)]
    ELSE IF f.game_type = "Fabric"
    THEN [f EXCEPT !.version_id = FirstMatch(installed_fs, LoaderFabric)]
    \* version_id stays unbound: UnboundLocalError at line 392, caught
    ELSE Fail(f, "VersionResolutionError", "showerror", "Launch Error")

\* lines 392-394: nothing picked, so the latest release as Vanilla
FallbackVersion(f, faults) ==
    IF f.pc = "Failed" \/ ~Falsy(f.version_id) THEN f
    ELSE LET g == [f EXCEPT !.calls = Append(@, Call("get_latest_version", <<>>))]
         IN  IF "get_latest_version" \in faults
             THEN Fail(g, "VersionResolutionError", "showerror", "Launch Error")
             ELSE [g EXCEPT !.version_id = latest_release, !.game_type = "Vanilla"]

\* lines 383-399
ResolveStep(f, faults) ==
    IF f.pc # "ResolvingVersion" THEN f
    ELSE LET f1 == [f EXCEPT !.calls = Append(@, Call("get_installed_versions", <<>>))]
             f3 == FallbackVersion(PickVersion(f1, faults), faults)
         IN  IF "get_installed_versions" \in faults
             THEN Fail(f1, "VersionResolutionError", "showerror", "Launch Error")
             ELSE IF f3.pc = "Failed" THEN f3
             ELSE [f3 EXCEPT !.pc = "Installing"]

\* lines 401-407
InstallStep(f, faults) ==
    IF f.pc # "Installing" THEN f
    ELSE LET g == [f EXCEPT !.calls =
                      Append(@, Call("install_minecraft_version", f.version_id))]
         IN  IF "install_minecraft_version" \in faults
             THEN Fail(g, "InstallError", "showerror", "Installation Error")
             ELSE [g EXCEPT !.pc = "BuildingSession"]

\* lines 409-423
SessionStep(f) ==
    IF f.pc # "BuildingSession" THEN f
    ELSE IF f.login_type = "offline"
    THEN [f EXCEPT !.pc = "Launching",
                   !.session = [name |-> f.username,
                                id |-> UuidStr(offline_uuid_bytes(f.username)),
                                token |-> ""]]
    ELSE IF ms_profile = <<>> THEN Raise(f)
    ELSE [f EXCEPT !.pc = "Launching",
                   !.session = [name |-> ms_profile[1].name,
                                id |-> ms_profile[1].id,
                                token |-> ms_token[1]]]

\* Faulty variant: the minimum heap is half the memory without the floor at 1.
JvmArguments_NoFloor(ram_gb) ==
    << <<"-","X","m","x">> \o Decimal(ram_gb) \o <<"G">>,
       <<"-","X","m","s">> \o Decimal(ram_gb \div 2) \o <<"G">> >>

\* line 430
JvmArguments(ram_gb) ==
    << <<"-","X","m","x">> \o Decimal(ram_gb) \o <<"G">>,
       <<"-","X","m","s">> \o Decimal(IF ram_gb \div 2 > 1 THEN ram_gb \div 2 ELSE 1)
                           \o <<"G">> >>

\* lines 425-440
LaunchStep(f, faults) ==
    IF f.pc # "Launching" THEN f
    ELSE
    LET failed(g) == Fail(g, "LaunchError", "showerror", "Launch Failed")
        f1 == [f EXCEPT !.options = [username |-> f.session.name,
                                     uuid |-> f.session.id,
                                     token |-> f.session.token,
                                     jvmArguments |-> JvmArguments(f.ram_gb)]]
        f2 == [f1 EXCEPT !.calls = Append(@, Call("get_minecraft_command", f.version_id))]
        f3 == [f2 EXCEPT !.calls = Append(@, Call("Popen", f.version_id))]
    IN  IF "get_minecraft_command" \in faults THEN failed(f2)
        ELSE IF "Popen" \in faults THEN failed(f3)
        ELSE [f3 EXCEPT !.pc = "Done",
                        !.msgs = Append(@, Msg("showinfo", "Launching", f3.game_type))]

\* MelonLauncher._launch, top to bottom
RunLaunch(faults) ==
    LaunchStep(
      SessionStep(
        InstallStep(
          ResolveStep(
            DirectoryStep(
              ImportStep(
                PersistStep(
                  ValidateStep(LaunchLocals),
                  faults),
                faults),
              faults),
            faults),
          faults)),
      faults)

----------------------------------------------------------------------------
(* The world the launcher starts in.                                       *)

NameSteve == <<"S","t","e","v","e">>
NameAlex == <<"A","l","e","x","_","2">>
NamePlayer == <<"P","l","a","y","e","r">>

\* What the user types in the main specification: a valid name padded with
\* blanks (the empty field of a first start is the invalid name there).
UiNames == {<<" ">> \o NameAlex \o <<" ", " ">>}

\* Version entries as get_installed_versions returns them; the last one has
\* no "id" key.
Entry(id) == [id |-> id, type |-> "release"]
IdRelease == <<"1",".","2","0">>
IdNewer == <<"1",".","2","1">>
IdForgeLower == <<"1",".","2","0","-","f","o","r","g","e">>
IdForgeUpper == <<"F","O","R","G","E","-","4","7">>
IdFabricMixed == <<"F","a","b","r","i","c","-","1">>
IdFabricLower == <<"f","a","b","r","i","c","-","l","o","a","d","e","r">>
EntryPool == {Entry(IdRelease), Entry(IdForgeLower), Entry(IdForgeUpper),
              Entry(IdFabricMixed), Entry(IdFabricLower), [type |-> "release"]}

SeqsUpTo(S, n) == UNION {[1..k -> S] : k \in 0..n}

\* every installed-versions list of at most MaxInstalled entries of the pool
AllInstalledLists == SeqsUpTo(EntryPool, MaxInstalled)

\* str(uuid.uuid4()) of the placeholder Microsoft login
MsIds == {UuidStr(Digest(64 + 7, 128 + 9, 2))}

DetectedRam == {MaxRam}

\* a preferences file with all three keys
PrefsFile(name, login_type, ram) ==
    JsonFile([offline_username |-> name, login_type |-> login_type, ram |-> ram])

\* Preferences files found at startup in the main specification: none, and
\* one left by an earlier run.
StartupFiles == {MissingFile, PrefsFile(NameSteve, "microsoft", 0 - 3)}

\* the operations _save_config performs, and the operations of the game
\* library and of subprocess that _launch performs
SaveOps == {"open", "json.dump"}
LibOps == {"import", "get_minecraft_directory", "get_installed_versions",
           "get_latest_version", "install_minecraft_version",
           "get_minecraft_command", "Popen"}

\* Which operations fail during one handler run: at most one step of the
\* file write (json.dump is not reached when open fails) and at most one
\* library operation (the handler returns or is left at the first one that
\* fails).
FaultSets ==
    {s \cup l : s \in {{}} \cup {{op} : op \in SaveOps},
                l \in {{}} \cup {{op} : op \in LibOps}}

\* the same with a file write that succeeds
LibFaultSets == {{}} \cup {{op} : op \in LibOps}

IdleAttempt(handler) ==
    [handler |-> handler, pc |-> "Idle", error |-> "",
     login_type |-> "", username |-> <<>>, requested |-> "", game_type |-> "",
     ram_gb |-> 0, writes |-> 0, save_errors |-> 0, version_id |-> NoneId,
     session |-> EmptyDict, options |-> EmptyDict, calls |-> <<>>, msgs |-> <<>>]

\* what is observed of a finished run of _launch
AttemptOf(f) ==
    [handler |-> "_launch", pc |-> f.pc, error |-> f.error,
     login_type |-> f.login_type, username |-> f.username,
     requested |-> f.requested, game_type |-> f.game_type,
     ram_gb |-> f.ram_gb, writes |-> f.writes, save_errors |-> f.save_errors,
     version_id |-> f.version_id,
     session |-> f.session, options |-> f.options, calls |-> f.calls,
     msgs |-> f.msgs]

\* MelonLauncher.__init__, lines 138-155 and 230, in a given world
InitIn(files, lists, releases, tables) ==
    /\ file \in files
    /\ config = load_config(file)
    /\ startup_config = config
    /\ username_var = Get(config, "offline_username", <<>>)
    /\ login_type_var = Get(config, "login_type", "offline")
    /\ ram_max \in DetectedRam
    /\ ram_var = Get(config, "ram", IF 4 < ram_max THEN 4 ELSE ram_max)
    /\ version_var = "Vanilla"
    /\ ms_profile = <<>>
    /\ ms_token = <<>>
    /\ closed = FALSE
    /\ installed_fs \in lists
    /\ latest_release \in releases
    /\ md5 \in tables
    /\ attempt = IdleAttempt("__init__")
    /\ last_passed = <<>>
    /\ last_offline = <<>>

----------------------------------------------------------------------------
(* The handlers.                                                           *)

\* typing in the username entry (bound to username_var)
EditUsername(u) ==
    /\ ~closed
    /\ username_var' = u
    /\ attempt' = IdleAttempt("edit")
    /\ UNCHANGED <<login_type_var, ram_var, version_var, ram_max, config,
                   ms_profile, ms_token, file, closed, installed_fs,
                   latest_release, md5, startup_config, last_passed, last_offline>>

\* the Offline / Microsoft radio buttons; _update_login_ui only shows and
\* hides widgets
SelectLoginType(t) ==
    /\ ~closed
    /\ login_type_var' = t
    /\ attempt' = IdleAttempt("_update_login_ui")
    /\ UNCHANGED <<username_var, ram_var, version_var, ram_max, config,
                   ms_profile, ms_token, file, closed, installed_fs,
                   latest_release, md5, startup_config, last_passed, last_offline>>

\* the game type combobox
SelectGameType(g) ==
    /\ ~closed
    /\ version_var' = g
    /\ attempt' = IdleAttempt("edit")
    /\ UNCHANGED <<username_var, login_type_var, ram_var, ram_max, config,
                   ms_profile, ms_token, file, closed, installed_fs,
                   latest_release, md5, startup_config, last_passed, last_offline>>

\* the RAM slider, from_=1 to=ram_max; _on_ram_slider_change only relabels
MoveRamSlider(v) ==
    /\ ~closed
    /\ v \in 1..ram_max
    /\ ram_var' = v
    /\ attempt' = IdleAttempt("_on_ram_slider_change")
    /\ UNCHANGED <<username_var, login_type_var, version_var, ram_max, config,
                   ms_profile, ms_token, file, closed, installed_fs,
                   latest_release, md5, startup_config, last_passed, last_offline>>

\* MelonLauncher._login_with_ms
LoginWithMs(id) ==
    /\ ~closed
    /\ ms_profile' = << [name |-> NamePlayer, id |-> id] >>
    /\ ms_token' = << "placeholder_token" >>
    /\ attempt' = [IdleAttempt("_login_with_ms") EXCEPT
                      !.msgs = << Msg("showinfo", "Microsoft Login", "") >>]
    /\ UNCHANGED <<username_var, login_type_var, ram_var, version_var, ram_max,
                   config, file, closed, installed_fs, latest_release, md5,
                   startup_config, last_passed, last_offline>>

\* MelonLauncher._launch
Launch(faults) ==
    /\ ~closed
    /\ LET f == RunLaunch(faults)
           request == [login_type |-> login_type_var,
                       username |-> Strip(username_var),
                       ram |-> ram_var]
           passed == f.error \notin {"InvalidUsername", "NotAuthenticated"}
       IN  /\ attempt' = AttemptOf(f)
           /\ config' = f.config
           /\ file' = f.file
           /\ last_passed' = IF passed THEN <<request>> ELSE last_passed
           /\ last_offline' = IF passed /\ login_type_var = "offline"
                              THEN <<request>> ELSE last_offline
    /\ UNCHANGED <<username_var, login_type_var, ram_var, version_var, ram_max,
                   ms_profile, ms_token, closed, installed_fs, latest_release,
                   md5, startup_config>>

\* Faulty variant: the close handler copies the form into the configuration before
\* saving it.
OnClose_ReadsForm(faults) ==
    /\ ~closed
    /\ config' = Put(Put(Put(config, "offline_username", Strip(username_var)),
                         "login_type", login_type_var), "ram", ram_var)
    /\ file' = save_config(config', file, faults)
    /\ closed' = TRUE
    /\ attempt' = [IdleAttempt("_on_close") EXCEPT
                      !.writes = 1, !.save_errors = SaveErrors(faults)]
    /\ UNCHANGED <<username_var, login_type_var, ram_var, version_var, ram_max,
                   ms_profile, ms_token, installed_fs, latest_release,
                   md5, startup_config, last_passed, last_offline>>

\* MelonLauncher._on_close
OnClose(faults) ==
    /\ ~closed
    /\ file' = save_config(config, file, faults)
    /\ closed' = TRUE
    /\ attempt' = [IdleAttempt("_on_close") EXCEPT
                      !.writes = 1, !.save_errors = SaveErrors(faults)]
    /\ UNCHANGED <<username_var, login_type_var, ram_var, version_var, ram_max,
                   config, ms_profile, ms_token, installed_fs, latest_release,
                   md5, startup_config, last_passed, last_offline>>

----------------------------------------------------------------------------
(* The launcher with its whole user interface.                             *)

\* the md5 of the main specification
Md5Main == [b |-> 85, s |-> 1]

Init ==
    InitIn(StartupFiles,
           {<<Entry(IdRelease), Entry(IdForgeUpper)>>},
           {IdRelease},
           {Md5Main})

Next ==
    \/ \E u \in UiNames : EditUsername(u)
    \/ \E t \in {"offline", "microsoft"} : SelectLoginType(t)
    \/ \E g \in {"Vanilla", "Forge", "Fabric"} : SelectGameType(g)
    \/ \E v \in 1..MaxRam : MoveRamSlider(v)
    \/ \E id \in MsIds : LoginWithMs(id)
    \/ \E faults \in FaultSets : Launch(faults)
    \/ \E faults \in FaultSets \cap SUBSET SaveOps : OnClose(faults)

Spec == Init /\ [][Next]_vars

----------------------------------------------------------------------------
(* Version resolution over every installed-versions list.                  *)

\* what get_latest_version()["release"] may be: a version newer than every
\* installed one, and the empty text
Releases == {IdNewer, <<>>}

InitResolve ==
    InitIn({PrefsFile(NameSteve, "offline", 2)},
           AllInstalledLists,
           Releases,
           {Md5Main})

NextResolve ==
    \/ \E g \in {"Vanilla", "Forge", "Fabric"} : SelectGameType(g)
    \/ \E faults \in LibFaultSets : Launch(faults)

SpecResolve == InitResolve /\ [][NextResolve]_vars

----------------------------------------------------------------------------
(* The JVM heap arguments over a range of stored memory values.            *)

\* the memory values found in the preferences file are -MaxHeap..MaxHeap
MaxHeap == 5

InitHeap ==
    InitIn({PrefsFile(NameSteve, lt, r) :
               lt \in {"offline", "microsoft"}, r \in (0 - MaxHeap)..MaxHeap},
           {<<>>},
           {IdRelease},
           {Md5Main})

NextHeap ==
    \/ \E v \in 1..MaxRam : MoveRamSlider(v)
    \/ \E id \in MsIds : LoginWithMs(id)
    \/ \E faults \in LibFaultSets : Launch(faults)

SpecHeap == InitHeap /\ [][NextHeap]_vars

----------------------------------------------------------------------------
(* The offline identifier over a range of digests.                         *)

\* every md5 of the family: bytes 6 and 8 of a digest take every value
Md5Family == {[b |-> b, s |-> s] : b \in 0..255, s \in 0..1}

InitUuid ==
    InitIn({PrefsFile(NameSteve, "offline", 2)}, {<<>>}, {IdRelease}, Md5Family)

NextUuid ==
    \/ \E u \in UiNames : EditUsername(u)
    \/ \E faults \in LibFaultSets : Launch(faults)

SpecUuid == InitUuid /\ [][NextUuid]_vars

----------------------------------------------------------------------------
(* The username validator over candidate names of every length.            *)

GoodPattern == <<"a","Z","0","_","m","9","Q","x">>

\* n characters of the class, the one at position p (if any) replaced by c
MkName(n, p, c) ==
    [i \in 1..n |-> IF i = p THEN c ELSE GoodPattern[((i - 1) % 8) + 1]]

BadChars == {" ", "-", "!", "\n"}

\* names of 0 .. 16 + MaxOver characters: all of the class, or with one
\* character outside it at any position
Candidates ==
    {MkName(n, 0, "a") : n \in 0..(16 + MaxOver)}
    \cup {MkName(n, p, c) : n \in 1..(16 + MaxOver), p \in 1..(16 + MaxOver), c \in BadChars}

InitValidator ==
    InitIn({PrefsFile(c, "offline", 1) : c \in Candidates},
           {<<>>},
           {IdRelease},
           {Md5Main})

NextValidator == \E faults \in LibFaultSets : Launch(faults)

SpecValidator == InitValidator /\ [][NextValidator]_vars

----------------------------------------------------------------------------
(* Vocabulary of the properties.                                           *)

\* The validator's contract, stated from the length and the characters.
SpecValid(u) ==
    /\ Len(u) \in 3..16
    /\ \A i \in 1..Len(u) :
          \/ \E k \in 1..26 : u[i] = UpperLetters[k] \/ u[i] = LowerLetters[k]
          \/ \E k \in 1..10 : u[i] = Digits[k]
          \/ u[i] = "_"

Launched == attempt.handler = "_launch"

ValidationErrors == {"InvalidUsername", "NotAuthenticated"}

\* the operations of the game library and the process spawn, in the order
\* of the launch sequence
CallRank(op) ==
    CASE op = "get_minecraft_directory" -> 1
      [] op = "get_installed_versions" -> 2
      [] op = "get_latest_version" -> 3
      [] op = "install_minecraft_version" -> 4
      [] op = "get_minecraft_command" -> 5
      [] op = "Popen" -> 6

CallsOf(op) == {i \in 1..Len(attempt.calls) : attempt.calls[i].op = op}

\* modal messages of the attempt that report a failure
FailureMsgs ==
    {i \in 1..Len(attempt.msgs) : attempt.msgs[i].box \in {"showerror", "showwarning"}}

----------------------------------------------------------------------------
(* Properties of the launch sequence.                                      *)

\* C1: a launch attempt that fails in Validating (offline mode with an
\* invalid trimmed username, or Microsoft mode with no completed login) ends
\* Failed with InvalidUsername resp. NotAuthenticated and has made no call
\* into the game library, built no launch options and spawned nothing.
C1_ValidationFailureMakesNoCall ==
    Launched =>
      /\ (attempt.login_type = "offline" /\ ~SpecValid(attempt.username))
            => /\ attempt.pc = "Failed"
               /\ attempt.error = "InvalidUsername"
               /\ attempt.calls = <<>>
               /\ attempt.options = EmptyDict
      /\ (attempt.login_type = "microsoft" /\ ms_profile = <<>>)
            => /\ attempt.pc = "Failed"
               /\ attempt.error = "NotAuthenticated"
               /\ attempt.calls = <<>>
               /\ attempt.options = EmptyDict

\* C1 witness: an offline attempt with an invalid username has just failed.
C1_Witness ==
    /\ Launched
    /\ attempt.login_type = "offline"
    /\ ~SpecValid(attempt.username)
    /\ attempt.error = "InvalidUsername"

\* C2: every error that is fatal to the attempt, a failure of any game
\* library operation included, is caught inside the launch handler and shown
\* as a modal message; nothing propagates out of the handler and the
\* launcher stays open for a new launch.
C2_EveryErrorCaught ==
    Launched =>
      /\ attempt.pc # "Raised"
      /\ attempt.pc = "Failed" => FailureMsgs # {}
      /\ ~closed

C9_StrictOrderOneFailureMessage ==
    Launched =>
      /\ \A i, j \in 1..Len(attempt.calls) :
            i < j => \/ CallRank(attempt.calls[i].op) < CallRank(attempt.calls[j].op)
                     \/ /\ attempt.calls[i].op = "get_latest_version"
                        /\ attempt.calls[j].op = "get_latest_version"
      /\ \A i \in 1..Len(attempt.calls) :
            attempt.calls[i].op \in {"install_minecraft_version",
                                     "get_minecraft_command", "Popen"}
               => attempt.calls[i].arg = attempt.version_id
      /\ CallsOf("install_minecraft_version") # {} => CallsOf("get_installed_versions") # {}
      /\ CallsOf("Popen") # {} => CallsOf("install_minecraft_version") # {}
      /\ attempt.pc = "Done" => CallsOf("Popen") # {}
      /\ attempt.pc = "Done" => FailureMsgs = {}
      /\ attempt.pc # "Done" => Cardinality(FailureMsgs) = 1

----------------------------------------------------------------------------
(* Properties of the persisted preferences.                                *)

\* key k of the persisted object d is as the history says: the value v the
\* latest attempt captured when there was one, else as loaded at startup
Persisted(d, k, captured, v) ==
    IF captured
    THEN k \in DOMAIN d /\ d[k] = v
    ELSE /\ k \in DOMAIN d <=> k \in DOMAIN startup_config
         /\ k \in DOMAIN d => d[k] = startup_config[k]

\* the persisted preferences, as the next start would load them
PersistedAsCaptured ==
    LET d == load_config(file)
    IN  /\ Persisted(d, "ram", last_passed # <<>>,
                     IF last_passed # <<>> THEN last_passed[1].ram ELSE 0)
        /\ Persisted(d, "login_type", last_passed # <<>>,
                     IF last_passed # <<>> THEN last_passed[1].login_type ELSE "")
        /\ Persisted(d, "offline_username", last_offline # <<>>,
                     IF last_offline # <<>> THEN last_offline[1].username ELSE <<>>)

----------------------------------------------------------------------------
(* Properties of version resolution.                                       *)

\* the attempt got past version resolution: install was requested
Resolved == Launched /\ CallsOf("install_minecraft_version") # {}

\* the game type named in the "Launching" message of a finished attempt
ReportedGameType == attempt.msgs[Len(attempt.msgs)].game_type

\* C4: version resolution for the default (Vanilla) edition yields the
\* library's latest stable release for every content of the installed list,
\* and the effective edition stays Vanilla.
C4_VanillaResolvesToLatest ==
    (Resolved /\ attempt.requested = "Vanilla") =>
      /\ attempt.version_id = latest_release
      /\ \A i \in CallsOf("install_minecraft_version") :
            attempt.calls[i].arg = latest_release
      /\ attempt.game_type = "Vanilla"
      /\ attempt.pc = "Done" => ReportedGameType = "Vanilla"

\* C4 witness: Vanilla was launched while the installed list holds an entry
\* without id and a Forge version.
C4_Witness ==
    /\ Launched
    /\ attempt.requested = "Vanilla"
    /\ attempt.pc = "Done"
    /\ installed_fs = << [type |-> "release"], Entry(IdForgeLower) >>
    /\ attempt.version_id = IdNewer

\* the loader name a modloader edition looks for
LoaderName(g) == IF g = "Forge" THEN LoaderForge ELSE LoaderFabric

\* entry e has an id that contains the loader name, letter case ignored
MatchesLoader(e, loader) ==
    /\ "id" \in DOMAIN e
    /\ \E k \in 0..(Len(e.id) - Len(loader)) :
          \A j \in 1..Len(loader) : Lower(e.id[k + j]) = loader[j]

LoaderHits ==
    {i \in 1..Len(installed_fs) :
        MatchesLoader(installed_fs[i], LoaderName(attempt.requested))}

\* C5: version resolution for Forge or Fabric picks the first installed
\* version, in enumeration order, whose id contains the loader name as a
\* case-insensitive substring; with no such version it resolves to the
\* latest stable release and the effective edition, used for the rest of the
\* attempt and reported to the user, is Vanilla.
C5_ModloaderFirstMatchOrFallback ==
    (Resolved /\ attempt.requested \in {"Forge", "Fabric"}) =>
      IF LoaderHits = {}
      THEN /\ attempt.version_id = latest_release
           /\ attempt.game_type = "Vanilla"
           /\ attempt.pc = "Done" => ReportedGameType = "Vanilla"
      ELSE /\ \E i \in LoaderHits :
                /\ \A j \in LoaderHits : i <= j
                /\ attempt.version_id = installed_fs[i].id
           /\ attempt.game_type = attempt.requested
           /\ attempt.pc = "Done" => ReportedGameType = attempt.requested

\* C5 witness: Forge was requested with only a Fabric version and a plain
\* release installed, and the launch went through as Vanilla.
C5_Witness ==
    /\ Launched
    /\ attempt.requested = "Forge"
    /\ installed_fs = << Entry(IdFabricLower), Entry(IdRelease) >>
    /\ attempt.pc = "Done"
    /\ attempt.game_type = "Vanilla"
    /\ attempt.version_id = latest_release

----------------------------------------------------------------------------
(* Properties of the launch options.                                       *)

DigitValue(c) == (CHOOSE k \in 1..10 : Digits[k] = c) - 1

RECURSIVE ParseNat(_)
ParseNat(s) ==
    IF s = <<>> THEN 0
    ELSE 10 * ParseNat(SubSeq(s, 1, Len(s) - 1)) + DigitValue(s[Len(s)])

\* arg is the text <flag><n>G with n in decimal
IsHeapArg(arg, flag, n) ==
    LET num == SubSeq(arg, Len(flag) + 1, Len(arg) - 1)
        digits == IF num # <<>> /\ num[1] = "-" THEN Tail(num) ELSE num
    IN  /\ Len(arg) >= Len(flag) + 2
        /\ SubSeq(arg, 1, Len(flag)) = flag
        /\ arg[Len(arg)] = "G"
        /\ digits # <<>>
        /\ \A i \in 1..Len(digits) : \E k \in 1..10 : Digits[k] = digits[i]
        /\ n = IF digits = num THEN ParseNat(digits) ELSE 0 - ParseNat(digits)

\* floor(n / 2), from its defining inequality
FloorHalf(n) == CHOOSE m \in (0 - n * n - 1)..(n * n + 1) : 2 * m <= n /\ n < 2 * m + 2

\* C6: in every attempt that reaches Launching with requested memory G, the
\* launch options carry exactly the session's name, identifier and token and
\* the two heap arguments -Xmx<G>G and -Xms<max(1, floor(G/2))>G; an offline
\* session has the empty token and the validated username as its name.
C6_LaunchOptions ==
    (Launched /\ attempt.options # EmptyDict) =>
      /\ DOMAIN attempt.options = {"username", "uuid", "token", "jvmArguments"}
      /\ attempt.options.username = attempt.session.name
      /\ attempt.options.uuid = attempt.session.id
      /\ attempt.options.token = attempt.session.token
      /\ Len(attempt.options.jvmArguments) = 2
      /\ IsHeapArg(attempt.options.jvmArguments[1], <<"-","X","m","x">>, ram_var)
      /\ IsHeapArg(attempt.options.jvmArguments[2], <<"-","X","m","s">>,
                   IF FloorHalf(ram_var) < 1 THEN 1 ELSE FloorHalf(ram_var))
      /\ login_type_var = "offline" =>
            /\ attempt.session.token = ""
            /\ attempt.session.name = Strip(username_var)
            /\ SpecValid(attempt.session.name)

\* C6 witness: offline, "Steve", 4 GB: the options carry -Xmx4G and -Xms2G.
C6_Witness ==
    /\ Launched
    /\ attempt.pc = "Done"
    /\ login_type_var = "offline"
    /\ ram_var = 4
    /\ attempt.session.name = NameSteve
    /\ attempt.session.token = ""
    /\ attempt.options.jvmArguments =
          << <<"-","X","m","x","4","G">>, <<"-","X","m","s","2","G">> >>

----------------------------------------------------------------------------
(* Properties of the offline identifier.                                   *)

HexValue(c) == (CHOOSE k \in 1..16 : HexDigits[k] = c) - 1

\* where byte i of a UUID starts in its 8-4-4-4-12 text
TextPos(i) ==
    2 * i + 1 + (IF i >= 4 THEN 1 ELSE 0) + (IF i >= 6 THEN 1 ELSE 0)
              + (IF i >= 8 THEN 1 ELSE 0) + (IF i >= 10 THEN 1 ELSE 0)

\* byte i of the UUID whose text is t
ByteOfText(t, i) == 16 * HexValue(t[TextPos(i)]) + HexValue(t[TextPos(i) + 1])

\* an offline attempt built its session
OfflineSession ==
    Launched /\ attempt.login_type = "offline" /\ attempt.session # EmptyDict

\* C7: the offline identifier is a function of the username: with d the
\* digest of "OfflinePlayer:" + username, byte 6 has high nibble 3 and the
\* low nibble of d[6], byte 8 has top bits 10 and the low six bits of d[8],
\* and the other 14 bytes are those of d.
C7_OfflineIdentifierBits ==
    OfflineSession =>
      LET id == attempt.session.id
          d == Md5Digest(OfflinePrefix \o attempt.username)
      IN  /\ Len(id) = 36
          /\ \A p \in {9, 14, 19, 24} : id[p] = "-"
          /\ ByteOfText(id, 6) \div 16 = 3
          /\ ByteOfText(id, 6) % 16 = d[6] % 16
          /\ ByteOfText(id, 8) \div 64 = 2
          /\ ByteOfText(id, 8) % 64 = d[8] % 64
          /\ \A i \in (0..15) \ {6, 8} : ByteOfText(id, i) = d[i]

\* C7 witness: an identifier was derived from a digest whose byte 6 has
\* another high nibble than 3 and whose byte 8 has other top bits than 10.
C7_Witness ==
    /\ OfflineSession
    /\ Md5Digest(OfflinePrefix \o attempt.username)[6] \div 16 = 15
    /\ Md5Digest(OfflinePrefix \o attempt.username)[8] \div 64 = 0

----------------------------------------------------------------------------
(* Properties of the username validator.                                   *)

\* C8: the validator accepts a name iff its length is 3..16 and every
\* character is an ASCII letter, a digit or an underscore, for the content
\* of the username field as typed and as trimmed; an offline attempt fails
\* with InvalidUsername exactly for the rejected names, and a rejection
\* changes nothing.
C8_ValidatorContract ==
    /\ validate_username(username_var) <=> SpecValid(username_var)
    /\ validate_username(Strip(username_var)) <=> SpecValid(Strip(username_var))
    /\ (Launched /\ attempt.login_type = "offline") =>
          (attempt.error = "InvalidUsername" <=> ~SpecValid(attempt.username))
    /\ (Launched /\ attempt.error = "InvalidUsername") =>
          /\ config = startup_config
          /\ file = JsonFile(startup_config)
          /\ attempt.writes = 0
          /\ attempt.calls = <<>>

\* C8 witness: a name of 17 characters of the class was rejected.
C8_Witness ==
    /\ Launched
    /\ attempt.error = "InvalidUsername"
    /\ Len(attempt.username) = 17
    /\ \A i \in 1..17 : attempt.username[i] \in WordChars

----------------------------------------------------------------------------
(* Properties of the heap arguments.                                       *)

\* the integer n of a heap argument -Xmx<n>G or -Xms<n>G
HeapOf(arg) ==
    LET num == SubSeq(arg, 5, Len(arg) - 1)
    IN  IF num # <<>> /\ num[1] = "-" THEN 0 - ParseNat(Tail(num)) ELSE ParseNat(num)

\* C11: in every attempt that reaches Launching, the minimum heap passed to
\* the launched process does not exceed the maximum heap, for every memory
\* value the launcher can hold at launch time, a value restored from the
\* persisted key `ram` at startup included.
C11_MinHeapAtMostMaxHeap ==
    (Launched /\ attempt.options # EmptyDict) =>
        HeapOf(attempt.options.jvmArguments[2]) <= HeapOf(attempt.options.jvmArguments[1])

====
